---- MODULE Spec2Model ----
(***************************************************************************)
(* Model of the Slack draft service (src/draft_service.py): the poll loop  *)
(* of SlackDraftService.run, the dispatcher process_messages, the handler  *)
(* process_mention with its generation retries, and the text functions     *)
(* they call.                                                              *)
(*                                                                         *)
(* A Python str is modelled as a sequence of characters, each character a  *)
(* one-character TLA+ string, so that "in", split, strip, lower and the    *)
(* regular expression of the draft extractor are computed, not assumed.    *)
(* Three characters of the program's texts that a TLA+ string cannot hold  *)
(* are written by their code points: "U+0060" (backquote), "U+00B7"        *)
(* (middle dot) and "U+2022" (bullet).                                     *)
(***************************************************************************)
EXTENDS Integers, Sequences, FiniteSets, TLC

(***************************************************************************)
(* Bounds of the model.                                                    *)
(***************************************************************************)
\* deque(maxlen=500) of line 78, scaled down so that eviction is reached.
maxlen == 2
\* Number of messages users post into the channel during a run.
MaxUserPosts == 2
\* Number of Slack calls that fail during a run.
MaxTransportFaults == 1
\* Number of generate_content calls that fail during a run.
MaxGenFaults == 1
\* The same, in the runs that follow the retries of the generation calls.
MaxRetryFaults == 4
\* Number of poll cycles the model follows.
MaxCycles == 2
\* time.time() when the service object is constructed.
StartTime == 30000

(***************************************************************************)
(* Program constants.                                                      *)
(***************************************************************************)
CHECK_INTERVAL == 30
LOOKBACK_SECONDS == 21600
STARTUP_LOOKBACK == 3600
HISTORY_LIMIT == 50
max_retries == 3
base_delay == 2

(***************************************************************************)
(* Python str operations on character sequences.                           *)
(***************************************************************************)
SeqMin(S) == CHOOSE m \in S : \A n \in S : m <= n

\* s[i:].startswith(sub), with i counted from 1.
StartsAt(s, sub, i) ==
    /\ i >= 1
    /\ i + Len(sub) - 1 <= Len(s)
    /\ \A k \in 1..Len(sub) : s[i + k - 1] = sub[k]

\* s.find(sub, from): the first index >= from where sub occurs, 0 when none.
Find(s, sub, from) ==
    LET hits == {i \in from..(Len(s) - Len(sub) + 1) : StartsAt(s, sub, i)}
    IN  IF hits = {} THEN 0 ELSE SeqMin(hits)

\* sub in s
Contains(sub, s) == Find(s, sub, 1) # 0

\* str.startswith
StartsWith(s, sub) == StartsAt(s, sub, 1)

Whitespace == {" ", "\n", "\t", "\r"}

\* s[a:b] with 1-based inclusive bounds; empty when a > b.
Slice(s, a, b) == IF a > b THEN <<>> ELSE SubSeq(s, a, b)

\* str.strip()
Strip(s) ==
    LET keep == {i \in 1..Len(s) : s[i] \notin Whitespace}
    IN  IF keep = {} THEN <<>>
        ELSE Slice(s, SeqMin(keep), CHOOSE m \in keep : \A n \in keep : n <= m)

\* str.rstrip(chars)
RStripChars(s, chars) ==
    LET keep == {i \in 1..Len(s) : s[i] \notin chars}
    IN  IF keep = {} THEN <<>>
        ELSE Slice(s, 1, CHOOSE m \in keep : \A n \in keep : n <= m)

UpperCase ==
    <<"A", "B", "C", "D", "E", "F", "G", "H", "I", "J", "K", "L", "M",
      "N", "O", "P", "Q", "R", "S", "T", "U", "V", "W", "X", "Y", "Z">>
LowerCase ==
    <<"a", "b", "c", "d", "e", "f", "g", "h", "i", "j", "k", "l", "m",
      "n", "o", "p", "q", "r", "s", "t", "u", "v", "w", "x", "y", "z">>

LowerChar(c) ==
    IF \E k \in 1..26 : UpperCase[k] = c
    THEN LowerCase[CHOOSE k \in 1..26 : UpperCase[k] = c]
    ELSE c

UpperChar(c) ==
    IF \E k \in 1..26 : LowerCase[k] = c
    THEN UpperCase[CHOOSE k \in 1..26 : LowerCase[k] = c]
    ELSE c

\* str.lower()
Lower(s) == [i \in 1..Len(s) |-> LowerChar(s[i])]

\* str.upper()
Upper(s) == [i \in 1..Len(s) |-> UpperChar(s[i])]

\* s.split(sep, 1): <<before, after>>; only used where sep occurs in s.
SplitOnce(s, sep) ==
    LET i == Find(s, sep, 1)
    IN  <<Slice(s, 1, i - 1), Slice(s, i + Len(sep), Len(s))>>

\* s.split("\n")[0]
FirstLine(s) ==
    LET i == Find(s, <<"\n">>, 1)
    IN  IF i = 0 THEN s ELSE Slice(s, 1, i - 1)

\* s.split("\n")
RECURSIVE SplitLines(_)
SplitLines(s) ==
    LET i == Find(s, <<"\n">>, 1)
    IN  IF i = 0 THEN <<s>>
        ELSE <<Slice(s, 1, i - 1)>> \o SplitLines(Slice(s, i + 1, Len(s)))

\* "\n".join(lines)
RECURSIVE JoinLines(_)
JoinLines(lines) ==
    IF lines = <<>> THEN <<>>
    ELSE IF Len(lines) = 1 THEN lines[1]
    ELSE lines[1] \o <<"\n">> \o JoinLines(Tail(lines))

\* s.split()[0] of a string that is not all whitespace.
FirstWord(s) ==
    LET t == Strip(s)
        ws == {i \in 1..Len(t) : t[i] \in Whitespace}
    IN  IF ws = {} THEN t ELSE Slice(t, 1, SeqMin(ws) - 1)

(***************************************************************************)
(* Texts of the program.                                                   *)
(***************************************************************************)
DRAFT_MARKER ==
    <<"D", "r", "a", "f", "t", " ", "R", "e", "s", "p", "o", "n", "s", "e" >>

DRAFT_HEADER ==
    <<"*", "D", "r", "a", "f", "t", " ", "R", "e", "s", "p", "o", "n", "s",
      "e", "*" >>

REPLY_MARKER ==
    <<"_", "R", "e", "p", "l", "y", " ", "w", "i", "t", "h", " ", "@", "C",
      "H", "F", "S", "D", "r", "a", "f", "t", "B", "o", "t" >>

SUBJECT_MARKER ==
    <<" ", "|", " ", "S", "u", "b", "j", "e", "c", "t", ":", " " >>

BODY_MARKER ==
    <<" ", "|", " ", "B", "o", "d", "y", " ", "P", "r", "e", "v", "i", "e",
      "w", ":", " " >>

NO_PREVIEW ==
    <<"(", "N", "o", " ", "p", "r", "e", "v", "i", "e", "w", ")" >>

EMOJI_URGENT ==
    <<":", "r", "o", "t", "a", "t", "i", "n", "g", "_", "l", "i", "g", "h",
      "t", ":" >>

EMOJI_NORMAL ==
    <<":", "m", "e", "m", "o", ":" >>

REFINED_NOTE ==
    <<" ", "_", "(", "r", "e", "f", "i", "n", "e", "d", ")", "_" >>

DRAFT_FOOTER ==
    <<"\n", "\n", "-", "-", "-", "\n", "_", "R", "e", "p", "l", "y", " ",
      "w", "i", "t", "h", " ", "@", "C", "H", "F", "S", "D", "r", "a", "f",
      "t", "B", "o", "t", " ", "+", " ", "c", "o", "m", "m", "a", "n", "d",
      " ", "t", "o", " ", "r", "e", "f", "i", "n", "e", ":", "_", "\n", "U+0060",
      "s", "h", "o", "r", "t", "e", "r", "U+0060", " ", "U+00B7", " ", "U+0060", "l",
      "o", "n", "g", "e", "r", "U+0060", " ", "U+00B7", " ", "U+0060", "f", "o", "r",
      "m", "a", "l", "U+0060", " ", "U+00B7", " ", "U+0060", "c", "a", "s", "u", "a",
      "l", "U+0060", " ", "U+00B7", " ", "U+0060", "r", "e", "w", "r", "i", "t", "e",
      "U+0060" >>

RATE_LIMIT_PLACEHOLDER ==
    <<"[", "E", "r", "r", "o", "r", ":", " ", "R", "a", "t", "e", " ", "l",
      "i", "m", "i", "t", " ", "e", "x", "c", "e", "e", "d", "e", "d", " ",
      "-", " ", "p", "l", "e", "a", "s", "e", " ", "t", "r", "y", " ", "a",
      "g", "a", "i", "n", " ", "i", "n", " ", "a", " ", "f", "e", "w", " ",
      "m", "i", "n", "u", "t", "e", "s", "]" >>

DRAFT_ERROR_PREFIX ==
    <<"[", "E", "r", "r", "o", "r", ":", " ", "C", "o", "u", "l", "d", " ",
      "n", "o", "t", " ", "g", "e", "n", "e", "r", "a", "t", "e", " ", "d",
      "r", "a", "f", "t", " ", "-", " " >>

REFINE_ERROR_PREFIX ==
    <<"[", "E", "r", "r", "o", "r", ":", " ", "C", "o", "u", "l", "d", " ",
      "n", "o", "t", " ", "r", "e", "f", "i", "n", "e", " ", "d", "r", "a",
      "f", "t", " ", "-", " " >>

WARNING_TEXT ==
    <<":", "w", "a", "r", "n", "i", "n", "g", ":", " ", "I", " ", "c", "o",
      "u", "l", "d", "n", "'", "t", " ", "f", "i", "n", "d", " ", "a", "n",
      " ", "e", "m", "a", "i", "l", " ", "i", "n", " ", "t", "h", "i", "s",
      " ", "t", "h", "r", "e", "a", "d", ".", " ", "T", "a", "g", " ", "m",
      "e", " ", "o", "n", " ", "a", "n", " ", "e", "m", "a", "i", "l", " ",
      "n", "o", "t", "i", "f", "i", "c", "a", "t", "i", "o", "n", " ", "t",
      "h", "r", "e", "a", "d", " ", "t", "o", " ", "d", "r", "a", "f", "t",
      " ", "a", " ", "r", "e", "s", "p", "o", "n", "s", "e", "." >>

STARTUP_TEXT ==
    <<":", "r", "o", "b", "o", "t", "_", "f", "a", "c", "e", ":", " ", "*",
      "C", "H", "F", "S", "D", "r", "a", "f", "t", "B", "o", "t", " ", "O",
      "n", "l", "i", "n", "e", "*", "\n", "\n", "T", "a", "g", " ", "m",
      "e", " ", "i", "n", " ", "a", "n", "y", " ", "e", "m", "a", "i", "l",
      " ", "t", "h", "r", "e", "a", "d", " ", "t", "o", " ", "g", "e", "t",
      " ", "a", " ", "d", "r", "a", "f", "t", " ", "r", "e", "s", "p", "o",
      "n", "s", "e", " ", "i", "n", " ", "L", "a", "u", "r", "a", "'", "s",
      " ", "s", "t", "y", "l", "e", ".", "\n", "\n", "*", "C", "o", "m",
      "m", "a", "n", "d", "s", ":", "*", "\n", "U+2022", " ", "U+0060", "@", "C",
      "H", "F", "S", "D", "r", "a", "f", "t", "B", "o", "t", "U+0060", " ", "-",
      " ", "G", "e", "n", "e", "r", "a", "t", "e", " ", "d", "r", "a", "f",
      "t", "\n", "U+2022", " ", "U+0060", "@", "C", "H", "F", "S", "D", "r", "a",
      "f", "t", "B", "o", "t", " ", "s", "h", "o", "r", "t", "e", "r", "U+0060",
      " ", "-", " ", "M", "a", "k", "e", " ", "i", "t", " ", "m", "o", "r",
      "e", " ", "c", "o", "n", "c", "i", "s", "e", "\n", "U+2022", " ", "U+0060",
      "@", "C", "H", "F", "S", "D", "r", "a", "f", "t", "B", "o", "t", " ",
      "l", "o", "n", "g", "e", "r", "U+0060", " ", "-", " ", "A", "d", "d", " ",
      "m", "o", "r", "e", " ", "d", "e", "t", "a", "i", "l", "\n", "U+2022",
      " ", "U+0060", "@", "C", "H", "F", "S", "D", "r", "a", "f", "t", "B", "o",
      "t", " ", "f", "o", "r", "m", "a", "l", "U+0060", " ", "-", " ", "M", "o",
      "r", "e", " ", "f", "o", "r", "m", "a", "l", " ", "t", "o", "n", "e",
      "\n", "U+2022", " ", "U+0060", "@", "C", "H", "F", "S", "D", "r", "a", "f",
      "t", "B", "o", "t", " ", "c", "a", "s", "u", "a", "l", "U+0060", " ", "-",
      " ", "M", "o", "r", "e", " ", "c", "a", "s", "u", "a", "l", " ", "t",
      "o", "n", "e", "\n", "U+2022", " ", "U+0060", "@", "C", "H", "F", "S", "D",
      "r", "a", "f", "t", "B", "o", "t", " ", "r", "e", "w", "r", "i", "t",
      "e", "U+0060", " ", "-", " ", "F", "r", "e", "s", "h", " ", "d", "r", "a",
      "f", "t" >>

URGENT_WORD ==
    <<"U", "R", "G", "E", "N", "T" >>

PRIORITY_LAURA ==
    <<"U", "R", "G", "E", "N", "T", " ", "-", " ", "F", "R", "O", "M", " ",
      "L", "A", "U", "R", "A" >>

PRIORITY_NORMAL ==
    <<"N", "O", "R", "M", "A", "L" >>

BOT_USER_ID ==
    <<"U", "1" >>

CMD_DRAFT ==
    <<"d", "r", "a", "f", "t" >>

CMD_SHORTER ==
    <<"s", "h", "o", "r", "t", "e", "r" >>

CMD_LONGER ==
    <<"l", "o", "n", "g", "e", "r" >>

CMD_FORMAL ==
    <<"f", "o", "r", "m", "a", "l" >>

CMD_CASUAL ==
    <<"c", "a", "s", "u", "a", "l" >>

CMD_REWRITE ==
    <<"r", "e", "w", "r", "i", "t", "e" >>

DASHES ==
    <<"-", "-", "-" >>

S_429 ==
    <<"4", "2", "9" >>

S_QUOTA ==
    <<"q", "u", "o", "t", "a" >>

S_RATE ==
    <<"r", "a", "t", "e" >>

priority_patterns ==
    {
      <<"l", "a", "u", "r", "a", ".", "p", "a", "r", "i", "s" >>,
      <<"l", "p", "a", "r", "i", "s" >>,
      <<"l", "a", "u", "r", "a", " ", "p", "a", "r", "i", "s" >>
    }

urgent_keywords ==
    {
      <<"u", "r", "g", "e", "n", "t" >>,
      <<"a", "s", "a", "p" >>,
      <<"i", "m", "m", "e", "d", "i", "a", "t", "e", "l", "y" >>,
      <<"e", "m", "e", "r", "g", "e", "n", "c", "y" >>,
      <<"c", "r", "i", "t", "i", "c", "a", "l" >>,
      <<"d", "e", "a", "d", "l", "i", "n", "e", " ", "t", "o", "d", "a", "y" >>
    }

scheduling_keywords ==
    {
      <<"m", "e", "e", "t", "i", "n", "g" >>,
      <<"s", "c", "h", "e", "d", "u", "l", "e" >>,
      <<"c", "a", "l", "e", "n", "d", "a", "r" >>,
      <<"t", "i", "m", "e" >>
    }

\* A question rule that knows the word and not the mark.
question_keywords_word ==
    { <<"q", "u", "e", "s", "t", "i", "o", "n" >> }

question_keywords ==
    {
      <<"q", "u", "e", "s", "t", "i", "o", "n" >>,
      <<"?" >>
    }

request_keywords ==
    {
      <<"p", "l", "e", "a", "s", "e" >>,
      <<"r", "e", "q", "u", "e", "s", "t" >>,
      <<"n", "e", "e", "d" >>,
      <<"c", "a", "n", " ", "y", "o", "u" >>
    }

fyi_keywords ==
    {
      <<"f", "y", "i" >>,
      <<"u", "p", "d", "a", "t", "e" >>,
      <<"i", "n", "f", "o", "r", "m", "a", "t", "i", "o", "n" >>,
      <<"a", "t", "t", "a", "c", "h", "e", "d" >>
    }

acknowledgment_keywords ==
    {
      <<"t", "h", "a", "n", "k" >>,
      <<"c", "o", "n", "g", "r", "a", "t" >>,
      <<"g", "r", "e", "a", "t", " ", "j", "o", "b" >>,
      <<"w", "e", "l", "l", " ", "d", "o", "n", "e" >>
    }

(***************************************************************************)
(* Optional values: None is the empty sequence, a value v is <<v>>.        *)
(***************************************************************************)
None == <<>>
Some(v) == <<v>>

\* self.commands (its keys).
commands == {CMD_SHORTER, CMD_LONGER, CMD_FORMAL, CMD_CASUAL, CMD_REWRITE}

\* f"<@{self.bot_user_id}>"
mention_pattern(bot_user_id) == <<"<", "@">> \o bot_user_id \o <<">">>

contains_bot_mention(bot_user_id, text) ==
    IF bot_user_id = None THEN FALSE
    ELSE Contains(mention_pattern(bot_user_id[1]), text)

\* A parse_command that keeps the punctuation of the first word.
parse_command_exact(bot_user_id, text) ==
    IF bot_user_id = None THEN None
    ELSE IF ~Contains(mention_pattern(bot_user_id[1]), text) THEN None
    ELSE LET text_after_mention ==
                 Lower(Strip(SplitOnce(text, mention_pattern(bot_user_id[1]))[2]))
             first_word == FirstWord(text_after_mention)
         IN  IF text_after_mention = <<>> THEN Some(CMD_DRAFT)
             ELSE IF first_word \in commands THEN Some(first_word)
             ELSE Some(CMD_DRAFT)

parse_command(bot_user_id, text) ==
    IF bot_user_id = None THEN None
    ELSE IF ~Contains(mention_pattern(bot_user_id[1]), text) THEN None
    ELSE LET text_after_mention ==
                 Lower(Strip(SplitOnce(text, mention_pattern(bot_user_id[1]))[2]))
             first_word ==
                 RStripChars(FirstWord(text_after_mention),
                             {".", ",", "!", "?", ";", ":"})
         IN  IF text_after_mention = <<>> THEN Some(CMD_DRAFT)
             ELSE IF first_word \in commands THEN Some(first_word)
             ELSE Some(CMD_DRAFT)

parse_email_from_message(text) ==
    LET first_line == Strip(FirstLine(text))
    IN  IF ~Contains(SUBJECT_MARKER, first_line)
           \/ ~Contains(BODY_MARKER, first_line)
        THEN None
        ELSE LET by_body == SplitOnce(first_line, BODY_MARKER)
                 before_body == by_body[1]
                 body_part == by_body[2]
             IN  \* before_body.split(" | Subject: ", 1) of a string without
                 \* the marker yields one part: the unpacking raises
                 \* ValueError, which is caught and returns None.
                 IF ~Contains(SUBJECT_MARKER, before_body) THEN None
                 ELSE LET by_subject == SplitOnce(before_body, SUBJECT_MARKER)
                          from_clean == Strip(by_subject[1])
                          subject_clean == Strip(by_subject[2])
                          body_clean == Strip(body_part)
                      IN  IF from_clean = <<>> \/ subject_clean = <<>>
                          THEN None
                          ELSE Some([from |-> from_clean,
                                     subject |-> subject_clean,
                                     body |-> IF body_clean # <<>>
                                              THEN body_clean
                                              ELSE NO_PREVIEW])

is_priority_sender(from_field) ==
    \E pattern \in priority_patterns : Contains(pattern, Lower(from_field))

classify_email(email_data) ==
    LET subject == Lower(email_data.subject)
        body == Lower(email_data.body)
        is_from_laura == is_priority_sender(email_data.from)
        is_urgent == \E kw \in urgent_keywords :
                        Contains(kw, subject) \/ Contains(kw, body)
        AnyIn(kws) == \E kw \in kws : Contains(kw, subject \o body)
    IN  [priority |-> IF is_from_laura THEN PRIORITY_LAURA
                      ELSE IF is_urgent THEN URGENT_WORD
                      ELSE PRIORITY_NORMAL,
         email_type |-> IF AnyIn(scheduling_keywords) THEN "scheduling"
                        ELSE IF AnyIn(question_keywords) THEN "question"
                        ELSE IF AnyIn(request_keywords) THEN "request"
                        ELSE IF AnyIn(fyi_keywords) THEN "fyi"
                        ELSE IF AnyIn(acknowledgment_keywords)
                             THEN "acknowledgment"
                        ELSE "general",
         is_from_laura |-> is_from_laura]

(***************************************************************************)
(* The draft extractor.                                                    *)
(***************************************************************************)
\* re.search of lines 173-177 (DOTALL): the literal header, any characters
\* but newline, two newlines, a lazy group, two newlines and three dashes.
\* None, or Some(group 1) of the leftmost match, trying header occurrences
\* from the index from on.  After the header the non-newline run ends at the
\* next newline, which must begin two newlines; the lazy group ends at the
\* first two-newlines-and-dashes after them.
RECURSIVE DraftRegexFrom(_, _)
DraftRegexFrom(text, from) ==
    LET i == Find(text, DRAFT_HEADER, from)
    IN  IF i = 0 THEN None
        ELSE LET j == Find(text, <<"\n">>, i + Len(DRAFT_HEADER))
                 k == IF j # 0 /\ StartsAt(text, <<"\n", "\n">>, j)
                      THEN Find(text, <<"\n", "\n">> \o DASHES, j + 2)
                      ELSE 0
             IN  IF k # 0 THEN Some(Slice(text, j + 2, k - 1))
                 ELSE DraftRegexFrom(text, i + 1)

DraftRegex(text) == DraftRegexFrom(text, 1)

\* The line-by-line fallback of lines 185-195: the lines collected.
RECURSIVE DraftLines(_, _, _)
DraftLines(lines, in_draft, draft_lines) ==
    IF lines = <<>> THEN draft_lines
    ELSE LET line == Head(lines)
         IN  IF Contains(DRAFT_HEADER, line) \/ Contains(DRAFT_MARKER, line)
             THEN DraftLines(Tail(lines), TRUE, draft_lines)
             ELSE IF StartsWith(line, DASHES) \/ Contains(REPLY_MARKER, line)
             THEN draft_lines
             ELSE IF in_draft /\ Strip(line) # <<>>
             THEN DraftLines(Tail(lines), in_draft, Append(draft_lines, line))
             ELSE DraftLines(Tail(lines), in_draft, draft_lines)

\* What one message of the thread yields: None, or Some(draft).
ExtractDraft(text) ==
    IF ~Contains(DRAFT_MARKER, text) THEN None
    ELSE LET match == DraftRegex(text)
             draft_lines == DraftLines(SplitLines(text), FALSE, <<>>)
         IN  IF match # None /\ Strip(match[1]) # <<>>
             THEN Some(Strip(match[1]))
             ELSE IF draft_lines # <<>>
             THEN Some(Strip(JoinLines(draft_lines)))
             ELSE None

\* A scan of the thread from its oldest message on.
RECURSIVE get_first_draft_from_thread(_)
get_first_draft_from_thread(thread_messages) ==
    IF thread_messages = <<>> THEN None
    ELSE LET found == ExtractDraft(Head(thread_messages).text)
         IN  IF found # None THEN found
             ELSE get_first_draft_from_thread(Tail(thread_messages))

\* for msg in reversed(thread_messages): the newest message that yields one.
RECURSIVE get_last_draft_from_thread(_)
get_last_draft_from_thread(thread_messages) ==
    IF thread_messages = <<>> THEN None
    ELSE LET n == Len(thread_messages)
             found == ExtractDraft(thread_messages[n].text)
         IN  IF found # None THEN found
             ELSE get_last_draft_from_thread(SubSeq(thread_messages, 1, n - 1))

(***************************************************************************)
(* Texts the service posts and returns.                                    *)
(***************************************************************************)
\* The message of post_draft_reply.
draft_message(draft, classification, is_refinement) ==
    (IF Contains(URGENT_WORD, classification.priority)
     THEN EMOJI_URGENT ELSE EMOJI_NORMAL)
    \o <<" ">> \o DRAFT_HEADER
    \o (IF is_refinement THEN REFINED_NOTE ELSE <<>>)
    \o <<"\n", "\n">> \o draft \o DRAFT_FOOTER

\* A test that takes every error for a rate limit.
is_rate_limited_always(error_msg) == TRUE

\* The rate-limit test of lines 330 and 382.
is_rate_limited(error_msg) ==
    \/ Contains(S_429, error_msg)
    \/ Contains(S_QUOTA, Lower(error_msg))
    \/ Contains(S_RATE, Lower(error_msg))

\* A backoff that grows linearly.
wait_time_linear(retry_count) == base_delay * (retry_count + 1)

\* base_delay * (2 ** retry_count)
wait_time(retry_count) == base_delay * (2 ^ retry_count)

\* f"[Error: Could not generate draft - {type(e).__name__}]" and its
\* refine_draft counterpart.
generic_error(is_refinement, type_name) ==
    (IF is_refinement THEN REFINE_ERROR_PREFIX ELSE DRAFT_ERROR_PREFIX)
    \o type_name \o <<"]">>

(***************************************************************************)
(* The environment: what users post, what the generator returns.           *)
(***************************************************************************)
T_EMAIL ==
    <<"a", " ", "|", " ", "S", "u", "b", "j", "e", "c", "t", ":", " ", "s",
      " ", "|", " ", "B", "o", "d", "y", " ", "P", "r", "e", "v", "i", "e",
      "w", ":", " ", "b" >>

T_SHORTER_TAIL ==
    <<" ", "S", "h", "o", "r", "t", "e", "r", "!" >>

GEN_OK ==
    <<"O", "k", "." >>

ERR_429 ==
    <<"4", "2", "9", " ", "R", "E", "S", "O", "U", "R", "C", "E", "_", "E",
      "X", "H", "A", "U", "S", "T", "E", "D" >>

ERR_QUOTA ==
    <<"Q", "u", "o", "t", "a", " ", "e", "x", "c", "e", "e", "d", "e", "d" >>

ERR_GENERATE ==
    <<"4", "0", "4", " ", "g", "e", "n", "e", "r", "a", "t", "e", "C", "o",
      "n", "t", "e", "n", "t" >>

ERR_SERVER ==
    <<"5", "0", "0", " ", "I", "N", "T", "E", "R", "N", "A", "L" >>

TYPE_CLIENT ==
    <<"C", "l", "i", "e", "n", "t", "E", "r", "r", "o", "r" >>

TYPE_SERVER ==
    <<"S", "e", "r", "v", "e", "r", "E", "r", "r", "o", "r" >>

T_EMAIL_URGENT ==
    <<"c", " ", "|", " ", "S", "u", "b", "j", "e", "c", "t", ":", " ", "u",
      "r", "g", "e", "n", "t", " ", "|", " ", "B", "o", "d", "y", " ", "P",
      "r", "e", "v", "i", "e", "w", ":", " ", "d" >>

T_QUOTE_TAIL ==
    <<" ", "D", "r", "a", "f", "t", " ", "R", "e", "s", "p", "o", "n", "s",
      "e" >>

\* A bare mention, and a mention followed by a refinement command.
T_MENTION == mention_pattern(BOT_USER_ID)
T_SHORTER == mention_pattern(BOT_USER_ID) \o T_SHORTER_TAIL

\* A mention that quotes the marker of the draft posts.
T_QUOTE == mention_pattern(BOT_USER_ID) \o T_QUOTE_TAIL

\* The text a user posts as a top-level message, and the texts a user
\* posts as a reply in a thread.
TopLevelTexts == {T_MENTION}
ReplyTexts == {T_MENTION, T_SHORTER}

\* response.text of a successful generation.
GenTexts == {GEN_OK}

\* Exceptions generate_content raises: str(e) and type(e).__name__.
GenErrors ==
    { [msg |-> ERR_429, type |-> TYPE_CLIENT],
      [msg |-> ERR_QUOTA, type |-> TYPE_CLIENT],
      [msg |-> ERR_GENERATE, type |-> TYPE_CLIENT],
      [msg |-> ERR_SERVER, type |-> TYPE_SERVER] }

\* How a Slack call ends: it returns, it raises SlackApiError, or it raises
\* another exception (a connection error, a timeout).
TransportOutcomes == {"ok", "SlackApiError", "Exception"}

(***************************************************************************)
(* State.                                                                  *)
(***************************************************************************)
VARIABLES
    msgs,                \* the channel: every message posted, oldest first
    now,                 \* time.time()
    user_posts,          \* messages users have posted
    pc,                  \* where run() is
    bot_user_id,         \* self.bot_user_id
    processed_messages,  \* self.processed_messages
    last_check_ts,       \* self.last_check_ts
    messages,            \* process_messages: the listing
    i,                   \* process_messages: index of msg in messages
    thread_messages,     \* process_messages: the thread being scanned
    j,                   \* process_messages: index of thread_msg
    pm,                  \* the frame of process_mention
    cycle,               \* calls of process_messages so far
    faults,              \* failed calls so far: Slack's and the generator's
    budget,              \* what the environment does at most in this run
    hist,                \* observations of the run, read by the properties
    probe                \* a text function called on its own: argument, results

vars == <<msgs, now, user_posts, pc, bot_user_id, processed_messages,
          last_check_ts, messages, i, thread_messages, j, pm, cycle, faults,
          budget, hist, probe>>

\* The frame of process_mention before any mention was dispatched.
NoMention ==
    [status |-> "none", msg_ts |-> 0, msg_text |-> <<>>, target_thread |-> 0,
     ret |-> "none", command |-> None, thread_messages |-> <<>>,
     email_data |-> None, classification |-> None, last_draft |-> None,
     is_refinement |-> FALSE, retry_count |-> 0, draft |-> None,
     attempts |-> 0, waits |-> <<>>, rate_fails |-> 0, other_fails |-> 0,
     gen_input |-> None, posts |-> 0, warnings |-> 0, posted |-> None]

NoHist ==
    [auth |-> "none",        \* how auth_test ended
     history_calls |-> 0,    \* conversations_history calls
     replies_calls |-> 0,    \* conversations_replies calls
     generate_calls |-> 0,   \* generate_content calls
     post_calls |-> 0,       \* chat_postMessage calls
     dispatched |-> <<>>,    \* ids handed to process_mention, in order
     appended |-> <<>>,      \* ids appended to processed_messages, in order
     failed |-> FALSE,       \* a message's processing failed in this cycle
     raised |-> FALSE,       \* an exception escaped this cycle
     ended |-> 0,            \* cycles that have ended
     started_at |-> 0,       \* time the current cycle started
     ended_at |-> 0,         \* time the last ended cycle ended
     oldest |-> 0,           \* oldest= of the last conversations_history
     watermark |-> 0,        \* last_check_ts when that call was made
     prev_completed |-> FALSE] \* the cycle before this one completed

\* The channel when the service starts: a mention that predates the
\* lookback window of every poll of the run, and a recent notification.
OldMessage ==
    [ts |-> 1, thread_ts |-> 1, at |-> StartTime - LOOKBACK_SECONDS,
     text |-> T_MENTION]

Notification ==
    [ts |-> 2, thread_ts |-> 2, at |-> StartTime - 1, text |-> T_EMAIL]

\* The service after construction (lines 74-90), in a given channel.
\* No text function has been called on its own.
NoProbe ==
    [stage |-> "none", text |-> <<>>, thread |-> <<>>, command |-> None,
     email |-> None, again |-> None, classification |-> None,
     draft |-> None]

Idle ==
    /\ now = StartTime
    /\ user_posts = 0
    /\ pc = "auth"
    /\ bot_user_id = None
    /\ processed_messages = <<>>
    /\ last_check_ts = StartTime - STARTUP_LOOKBACK
    /\ messages = <<>>
    /\ i = 0
    /\ thread_messages = <<>>
    /\ j = 0
    /\ pm = NoMention
    /\ cycle = 0
    /\ faults = [transport |-> 0, gen |-> 0]
    /\ hist = NoHist

Constructed == Idle /\ probe = NoProbe

Init ==
    /\ msgs = <<OldMessage, Notification>>
    /\ budget = [posts |-> MaxUserPosts, transport |-> MaxTransportFaults,
                 gen |-> MaxGenFaults]
    /\ Constructed

\* A channel in which the notification has been answered by a mention and
\* by a refinement command, and a user has mentioned the bot at top level.
AnsweredChannel ==
    <<OldMessage, Notification,
      [ts |-> 3, thread_ts |-> 2, at |-> StartTime - 1, text |-> T_MENTION],
      [ts |-> 4, thread_ts |-> 2, at |-> StartTime - 1, text |-> T_SHORTER],
      [ts |-> 5, thread_ts |-> 5, at |-> StartTime - 1, text |-> T_MENTION]>>

\* The same channel with, after them: a top-level message and a reply to the
\* notification that mention the bot and carry the draft marker, two
\* notifications as replies to the top-level mention, and a second top-level
\* mention.
EchoChannel ==
    AnsweredChannel \o
    <<[ts |-> 6, thread_ts |-> 6, at |-> StartTime - 1, text |-> T_QUOTE],
      [ts |-> 7, thread_ts |-> 2, at |-> StartTime - 1, text |-> T_QUOTE],
      [ts |-> 8, thread_ts |-> 5, at |-> StartTime - 1,
       text |-> T_EMAIL_URGENT],
      [ts |-> 9, thread_ts |-> 5, at |-> StartTime - 1, text |-> T_EMAIL],
      [ts |-> 10, thread_ts |-> 10, at |-> StartTime - 1, text |-> T_MENTION]>>

\* Slack does not fail, the generator does.
RetryInit ==
    /\ msgs = AnsweredChannel
    /\ budget = [posts |-> 0, transport |-> 0, gen |-> MaxRetryFaults]
    /\ Constructed

\* Slack and the generator fail, nobody posts.
LoopInit ==
    /\ msgs = AnsweredChannel
    /\ budget = [posts |-> 0, transport |-> MaxTransportFaults,
                 gen |-> MaxGenFaults]
    /\ Constructed

\* The same, in the channel with the quoted marker.
EchoInit ==
    /\ msgs = EchoChannel
    /\ budget = [posts |-> 0, transport |-> MaxTransportFaults,
                 gen |-> MaxGenFaults]
    /\ Constructed

(***************************************************************************)
(* The chat transport.                                                     *)
(***************************************************************************)
IsTopLevel(m) == m.thread_ts = m.ts

\* The channel after a message is posted: ts is fresh, thread 0 means a
\* top-level message.
Posted(channel, thread, text, at) ==
    LET ts == Len(channel) + 1
    IN  Append(channel, [ts |-> ts,
                         thread_ts |-> IF thread = 0 THEN ts ELSE thread,
                         at |-> at, text |-> text])

ReplyCount(channel, ts) ==
    Cardinality({k \in 1..Len(channel) :
                    channel[k].thread_ts = ts /\ channel[k].ts # ts})

RECURSIVE Reverse(_)
Reverse(s) == IF s = <<>> THEN <<>> ELSE Append(Reverse(Tail(s)), Head(s))

\* conversations_history(oldest=..., limit=...): the top-level messages
\* newer than oldest, newest first, at most limit of them.
History(channel, oldest, limit) ==
    LET InWindow(m) == IsTopLevel(m) /\ m.at > oldest
        found == Reverse(SelectSeq(channel, InWindow))
        page == IF Len(found) > limit THEN SubSeq(found, 1, limit) ELSE found
    IN  [k \in 1..Len(page) |->
            [ts |-> page[k].ts, text |-> page[k].text,
             reply_count |-> ReplyCount(channel, page[k].ts)]]

\* conversations_replies(ts=...): the parent and its replies, oldest first.
Replies(channel, thread) ==
    LET InThread(m) == m.thread_ts = thread
        found == SelectSeq(channel, InThread)
    IN  [k \in 1..Len(found) |-> [ts |-> found[k].ts, text |-> found[k].text]]

\* The outcomes the next Slack call can have, and the faults after it.
Outcomes ==
    IF faults.transport < budget.transport THEN TransportOutcomes
    ELSE {"ok"}

Charged(r) ==
    IF r = "ok" THEN faults ELSE [faults EXCEPT !.transport = @ + 1]

\* A user posts a top-level message, or a reply in the thread of a
\* top-level message of the run's window.  Users post before the service
\* starts and while it sleeps between two cycles.
UserPost ==
    /\ user_posts < budget.posts
    /\ cycle < MaxCycles
    /\ pc \in {"auth", "sleep"}
    /\ \/ \E text \in TopLevelTexts : msgs' = Posted(msgs, 0, text, now)
       \/ \E text \in ReplyTexts, k \in 1..Len(msgs) :
             /\ IsTopLevel(msgs[k])
             /\ msgs[k].at > StartTime - LOOKBACK_SECONDS
             /\ msgs' = Posted(msgs, msgs[k].ts, text, now)
    /\ user_posts' = user_posts + 1
    /\ UNCHANGED <<now, pc, bot_user_id, processed_messages, last_check_ts,
                   messages, i, thread_messages, j, pm, cycle, faults, budget,
                   hist, probe>>

(***************************************************************************)
(* The service.                                                            *)
(***************************************************************************)
\* A deque that forgets its maxlen.
deque_append_unbounded(dq, x) == Append(dq, x)

\* deque(maxlen=...).append(x): a full deque drops its oldest element.
deque_append(dq, x) ==
    IF Len(dq) >= maxlen THEN Append(Tail(dq), x) ELSE Append(dq, x)

\* A membership test that never finds the id.
InDeque_never(x, dq) == FALSE

\* x in deque
InDeque(x, dq) == \E k \in 1..Len(dq) : dq[k] = x

\* A listing that looks back one hour, as the constructor's watermark does.
lookback_ts_hour(t) == t - STARTUP_LOOKBACK

\* lookback_ts of get_recent_messages, as a number.
lookback_ts(t) == t - LOOKBACK_SECONDS

\* A run() that goes on after a failed auth_test.
after_auth_goes_on(r) == IF r = "Exception" THEN "crashed" ELSE "startup"

\* Where run() goes after auth_test: on, return (line 529), or the
\* exception leaves run().
after_auth(r) ==
    IF r = "ok" THEN "startup"
    ELSE IF r = "SlackApiError" THEN "returned"
    ELSE "crashed"

\* A run() whose loop has no handler: the exception leaves run().
loop_except_missing == "crashed"

\* Where run() goes when an exception leaves process_messages: the handler
\* of line 553, then the sleep of line 556.
loop_except == "sleep"

\* Where process_messages stands with msg = listing[k]: past the loop, at
\* the thread scan of a message with replies, or at the top-level check.
at_message(listing, k) ==
    IF k > Len(listing) THEN "end"
    ELSE IF listing[k].reply_count > 0 THEN "scan_read"
    ELSE "top"

\* A process_mention that never refines.
is_refinement_request_never(command) == FALSE

\* command != "draft" and command in self.commands
is_refinement_request(command) ==
    command # None /\ command[1] # CMD_DRAFT /\ command[1] \in commands

\* A scan that keeps the last message that parses as an email.
RECURSIVE last_email(_)
last_email(thread) ==
    IF thread = <<>> THEN None
    ELSE LET n == Len(thread)
             email_data == parse_email_from_message(thread[n].text)
         IN  IF email_data # None THEN email_data
             ELSE last_email(SubSeq(thread, 1, n - 1))

\* The loop of lines 429-433: the first message that parses as an email.
RECURSIVE first_email(_)
first_email(thread) ==
    IF thread = <<>> THEN None
    ELSE LET email_data == parse_email_from_message(Head(thread).text)
         IN  IF email_data # None THEN email_data
             ELSE first_email(Tail(thread))

\* The rate-limit class of errors, as the properties read it.
RateLimitClass(error_msg) ==
    \E word \in {S_429, S_QUOTA, S_RATE} : Contains(word, Lower(error_msg))

AuthTest ==
    /\ pc = "auth"
    /\ \E r \in Outcomes :
          /\ faults' = Charged(r)
          /\ bot_user_id' = IF r = "ok" THEN Some(BOT_USER_ID) ELSE None
          /\ pc' = after_auth(r)
          /\ hist' = [hist EXCEPT !.auth = r]
    /\ UNCHANGED <<msgs, now, user_posts, processed_messages, last_check_ts,
                   messages, i, thread_messages, j, pm, cycle, budget, probe>>

\* The startup announcement of lines 532-548.
StartupPost ==
    /\ pc = "startup"
    /\ \E r \in Outcomes :
          /\ faults' = Charged(r)
          /\ msgs' = IF r = "ok" THEN Posted(msgs, 0, STARTUP_TEXT, now)
                     ELSE msgs
          /\ pc' = IF r = "Exception" THEN "crashed" ELSE "poll"
    /\ hist' = [hist EXCEPT !.post_calls = @ + 1]
    /\ UNCHANGED <<now, user_posts, bot_user_id, processed_messages,
                   last_check_ts, messages, i, thread_messages, j, pm, cycle,
                   budget, probe>>

\* hist when an exception leaves process_messages.
Escaped(h) ==
    [h EXCEPT !.raised = TRUE, !.ended = @ + 1, !.ended_at = now]

\* process_messages is called and lists the channel (get_recent_messages).
GetRecentMessages ==
    /\ pc = "poll"
    /\ cycle < MaxCycles
    /\ cycle' = cycle + 1
    /\ \E r \in Outcomes :
          /\ faults' = Charged(r)
          /\ LET h == [hist EXCEPT !.history_calls = @ + 1,
                                   !.failed = FALSE,
                                   !.raised = FALSE,
                                   !.started_at = now,
                                   !.oldest = lookback_ts(now),
                                   !.watermark = last_check_ts,
                                   !.prev_completed = cycle >= 1 /\ ~hist.raised]
             IN  /\ messages' = IF r = "ok"
                                THEN History(msgs, lookback_ts(now), HISTORY_LIMIT)
                                ELSE <<>>
                 /\ i' = 1
                 /\ pc' = IF r = "Exception" THEN loop_except
                          ELSE at_message(messages', 1)
                 /\ hist' = IF r = "Exception" THEN Escaped(h) ELSE h
    /\ UNCHANGED <<msgs, now, user_posts, bot_user_id, processed_messages,
                   last_check_ts, thread_messages, j, pm, budget, probe>>

\* get_thread_messages of line 481.
ScanThread ==
    /\ pc = "scan_read"
    /\ \E r \in Outcomes :
          /\ faults' = Charged(r)
          /\ LET h == [hist EXCEPT !.replies_calls = @ + 1,
                                   !.failed = @ \/ r # "ok"]
             IN  /\ thread_messages' = IF r = "ok"
                                       THEN Replies(msgs, messages[i].ts)
                                       ELSE <<>>
                 /\ j' = 1
                 /\ pc' = IF r = "Exception" THEN loop_except ELSE "scan"
                 /\ hist' = IF r = "Exception" THEN Escaped(h) ELSE h
    /\ UNCHANGED <<msgs, now, user_posts, bot_user_id, processed_messages,
                   last_check_ts, messages, i, pm, cycle, budget, probe>>

\* The frame of a call process_mention(msg_ts, msg_text, target_thread).
Frame(msg_ts, msg_text, target_thread, ret) ==
    [NoMention EXCEPT !.status = "running", !.msg_ts = msg_ts,
                      !.msg_text = msg_text, !.target_thread = target_thread,
                      !.ret = ret]

\* A thread scan that looks for the mention before the draft marker.
ScanStep_mention_first ==
    /\ pc = "scan"
    /\ IF j > Len(thread_messages)
       THEN /\ pc' = "top"
            /\ UNCHANGED <<processed_messages, j, pm, hist>>
       ELSE LET thread_msg == thread_messages[j]
            IN  IF InDeque(thread_msg.ts, processed_messages)
                THEN /\ j' = j + 1
                     /\ UNCHANGED <<pc, processed_messages, pm, hist>>
                ELSE IF contains_bot_mention(bot_user_id, thread_msg.text)
                THEN /\ pm' = Frame(thread_msg.ts, thread_msg.text,
                                    messages[i].ts, "scan")
                     /\ hist' = [hist EXCEPT
                                   !.dispatched = Append(@, thread_msg.ts)]
                     /\ pc' = "pm_read"
                     /\ UNCHANGED <<processed_messages, j>>
                ELSE IF Contains(DRAFT_MARKER, thread_msg.text)
                THEN /\ processed_messages' =
                            deque_append(processed_messages, thread_msg.ts)
                     /\ hist' = [hist EXCEPT
                                   !.appended = Append(@, thread_msg.ts)]
                     /\ j' = j + 1
                     /\ UNCHANGED <<pc, pm>>
                ELSE /\ j' = j + 1
                     /\ UNCHANGED <<pc, processed_messages, pm, hist>>
    /\ UNCHANGED <<msgs, now, user_posts, bot_user_id, last_check_ts,
                   messages, i, thread_messages, cycle, faults, budget, probe>>

\* One turn of the loop of lines 482-498.
ScanStep ==
    /\ pc = "scan"
    /\ IF j > Len(thread_messages)
       THEN /\ pc' = "top"
            /\ UNCHANGED <<processed_messages, j, pm, hist>>
       ELSE LET thread_msg == thread_messages[j]
            IN  IF InDeque(thread_msg.ts, processed_messages)
                THEN /\ j' = j + 1
                     /\ UNCHANGED <<pc, processed_messages, pm, hist>>
                ELSE IF Contains(DRAFT_MARKER, thread_msg.text)
                THEN /\ processed_messages' =
                            deque_append(processed_messages, thread_msg.ts)
                     /\ hist' = [hist EXCEPT
                                   !.appended = Append(@, thread_msg.ts)]
                     /\ j' = j + 1
                     /\ UNCHANGED <<pc, pm>>
                ELSE IF contains_bot_mention(bot_user_id, thread_msg.text)
                THEN /\ pm' = Frame(thread_msg.ts, thread_msg.text,
                                    messages[i].ts, "scan")
                     /\ hist' = [hist EXCEPT
                                   !.dispatched = Append(@, thread_msg.ts)]
                     /\ pc' = "pm_read"
                     /\ UNCHANGED <<processed_messages, j>>
                ELSE /\ j' = j + 1
                     /\ UNCHANGED <<pc, processed_messages, pm, hist>>
    /\ UNCHANGED <<msgs, now, user_posts, bot_user_id, last_check_ts,
                   messages, i, thread_messages, cycle, faults, budget, probe>>

\* A top-level check that looks for the mention before the draft marker.
TopLevel_mention_first ==
    /\ pc = "top"
    /\ LET msg == messages[i]
           MarkSeen ==
               /\ processed_messages' =
                      deque_append(processed_messages, msg.ts)
               /\ hist' = [hist EXCEPT !.appended = Append(@, msg.ts)]
               /\ i' = i + 1
               /\ pc' = at_message(messages, i + 1)
               /\ UNCHANGED pm
       IN  IF InDeque(msg.ts, processed_messages)
           THEN /\ i' = i + 1
                /\ pc' = at_message(messages, i + 1)
                /\ UNCHANGED <<processed_messages, pm, hist>>
           ELSE IF contains_bot_mention(bot_user_id, msg.text)
           THEN /\ pm' = Frame(msg.ts, msg.text, msg.ts, "top")
                /\ hist' = [hist EXCEPT !.dispatched = Append(@, msg.ts)]
                /\ pc' = "pm_read"
                /\ UNCHANGED <<processed_messages, i>>
           ELSE MarkSeen
    /\ UNCHANGED <<msgs, now, user_posts, bot_user_id, last_check_ts,
                   messages, thread_messages, j, cycle, faults, budget,
                   probe>>

\* The top-level check of lines 501-508.
TopLevel ==
    /\ pc = "top"
    /\ LET msg == messages[i]
           MarkSeen ==
               /\ processed_messages' =
                      deque_append(processed_messages, msg.ts)
               /\ hist' = [hist EXCEPT !.appended = Append(@, msg.ts)]
               /\ i' = i + 1
               /\ pc' = at_message(messages, i + 1)
               /\ UNCHANGED pm
       IN  IF InDeque(msg.ts, processed_messages)
           THEN /\ i' = i + 1
                /\ pc' = at_message(messages, i + 1)
                /\ UNCHANGED <<processed_messages, pm, hist>>
           ELSE IF Contains(DRAFT_MARKER, msg.text)
           THEN MarkSeen
           ELSE IF contains_bot_mention(bot_user_id, msg.text)
           THEN /\ pm' = Frame(msg.ts, msg.text, msg.ts, "top")
                /\ hist' = [hist EXCEPT !.dispatched = Append(@, msg.ts)]
                /\ pc' = "pm_read"
                /\ UNCHANGED <<processed_messages, i>>
           ELSE MarkSeen
    /\ UNCHANGED <<msgs, now, user_posts, bot_user_id, last_check_ts,
                   messages, thread_messages, j, cycle, faults, budget, probe>>

\* Lines 422-448 and the choice of lines 451-454: the command, the thread,
\* the email, the classification, and whether a draft is refined.
MentionRead ==
    /\ pc = "pm_read"
    /\ \E r \in Outcomes :
          /\ faults' = Charged(r)
          /\ LET command == parse_command(bot_user_id, pm.msg_text)
                 thread == IF r = "ok" THEN Replies(msgs, pm.target_thread)
                           ELSE <<>>
                 email_data == first_email(thread)
                 last_draft == IF is_refinement_request(command)
                               THEN get_last_draft_from_thread(thread)
                               ELSE None
                 h == [hist EXCEPT !.replies_calls = @ + 1,
                                   !.failed = @ \/ r # "ok" \/ email_data = None]
             IN  IF r = "Exception"
                 THEN /\ pm' = [pm EXCEPT !.status = "raised",
                                          !.command = command]
                      /\ pc' = loop_except
                      /\ hist' = Escaped(h)
                 ELSE /\ pm' = [pm EXCEPT
                                  !.command = command,
                                  !.thread_messages = thread,
                                  !.email_data = email_data,
                                  !.classification =
                                      IF email_data = None THEN None
                                      ELSE Some(classify_email(email_data[1])),
                                  !.last_draft = last_draft,
                                  !.is_refinement =
                                      email_data # None /\ last_draft # None,
                                  !.gen_input =
                                      IF email_data # None THEN last_draft
                                      ELSE None]
                      /\ pc' = IF email_data = None THEN "pm_warn"
                               ELSE "generate"
                      /\ hist' = h
    /\ UNCHANGED <<msgs, now, user_posts, bot_user_id, processed_messages,
                   last_check_ts, messages, i, thread_messages, j, cycle,
                   budget, probe>>

\* process_mention returns to process_messages, which appends the id
\* (lines 498 and 506) and goes on with its loop.
Return(frame) ==
    /\ pm' = [frame EXCEPT !.status = "returned"]
    /\ processed_messages' = deque_append(processed_messages, pm.msg_ts)
    /\ IF pm.ret = "scan"
       THEN /\ j' = j + 1
            /\ pc' = "scan"
            /\ UNCHANGED i
       ELSE /\ i' = i + 1
            /\ pc' = at_message(messages, i + 1)
            /\ UNCHANGED j

\* hist when process_mention has returned.
Returned(h) == [h EXCEPT !.appended = Append(@, pm.msg_ts)]

\* The warning post of lines 437-445.
WarnPost ==
    /\ pc = "pm_warn"
    /\ \E r \in Outcomes :
          /\ faults' = Charged(r)
          /\ LET frame == [pm EXCEPT !.warnings = @ + 1]
                 h == [hist EXCEPT !.post_calls = @ + 1,
                                   !.failed = @ \/ r # "ok"]
             IN  /\ msgs' = IF r = "ok"
                            THEN Posted(msgs, pm.target_thread, WARNING_TEXT, now)
                            ELSE msgs
                 /\ IF r = "Exception"
                    THEN /\ pm' = [frame EXCEPT !.status = "raised"]
                         /\ pc' = loop_except
                         /\ hist' = Escaped(h)
                         /\ UNCHANGED <<processed_messages, i, j>>
                    ELSE /\ Return(frame)
                         /\ hist' = Returned(h)
    /\ UNCHANGED <<now, user_posts, bot_user_id, last_check_ts, messages,
                   thread_messages, cycle, budget, probe>>

\* One generate_content call of draft_response (lines 318-340) or of
\* refine_draft (lines 371-392), with what follows it: the return of the
\* draft, or the handler with its sleep and the recursive call.
Generate ==
    /\ pc = "generate"
    /\ \/ \E text \in GenTexts :
             /\ pm' = [pm EXCEPT !.attempts = @ + 1,
                                 !.draft = Some(Strip(text))]
             /\ pc' = "pm_post"
             /\ hist' = [hist EXCEPT !.generate_calls = @ + 1]
             /\ now' = now
             /\ faults' = faults
       \/ \E e \in GenErrors :
             /\ faults.gen < budget.gen
             /\ faults' = [faults EXCEPT !.gen = @ + 1]
             /\ LET frame == [pm EXCEPT
                                !.attempts = @ + 1,
                                !.rate_fails =
                                    IF RateLimitClass(e.msg) THEN @ + 1 ELSE @,
                                !.other_fails =
                                    IF RateLimitClass(e.msg) THEN @ ELSE @ + 1]
                IN  /\ hist' = [hist EXCEPT !.generate_calls = @ + 1,
                                            !.failed = TRUE]
                    /\ IF is_rate_limited(e.msg)
                       THEN IF pm.retry_count < max_retries
                            THEN /\ pm' = [frame EXCEPT
                                      !.waits = Append(@, wait_time(pm.retry_count)),
                                      !.retry_count = @ + 1]
                                 /\ now' = now + wait_time(pm.retry_count)
                                 /\ pc' = "generate"
                            ELSE /\ pm' = [frame EXCEPT
                                      !.draft = Some(RATE_LIMIT_PLACEHOLDER)]
                                 /\ now' = now
                                 /\ pc' = "pm_post"
                       ELSE /\ pm' = [frame EXCEPT
                                 !.draft = Some(generic_error(pm.is_refinement,
                                                              e.type))]
                            /\ now' = now
                            /\ pc' = "pm_post"
    /\ UNCHANGED <<msgs, user_posts, bot_user_id, processed_messages,
                   last_check_ts, messages, i, thread_messages, j, cycle,
                   budget, probe>>

\* post_draft_reply (lines 394-415), called at line 457, 462 or 467.
PostDraft ==
    /\ pc = "pm_post"
    /\ \E r \in Outcomes :
          /\ faults' = Charged(r)
          /\ LET message == draft_message(pm.draft[1], pm.classification[1],
                                          pm.is_refinement)
                 frame == [pm EXCEPT !.posts = @ + 1, !.posted = Some(message)]
                 h == [hist EXCEPT !.post_calls = @ + 1,
                                   !.failed = @ \/ r # "ok"]
             IN  /\ msgs' = IF r = "ok"
                            THEN Posted(msgs, pm.target_thread, message, now)
                            ELSE msgs
                 /\ IF r = "Exception"
                    THEN /\ pm' = [frame EXCEPT !.status = "raised"]
                         /\ pc' = loop_except
                         /\ hist' = Escaped(h)
                         /\ UNCHANGED <<processed_messages, i, j>>
                    ELSE /\ Return(frame)
                         /\ hist' = Returned(h)
    /\ UNCHANGED <<now, user_posts, bot_user_id, last_check_ts, messages,
                   thread_messages, cycle, budget, probe>>

\* Lines 510-511: the loop over the listing is over.
EndCycle ==
    /\ pc = "end"
    /\ last_check_ts' = now
    /\ pc' = "sleep"
    /\ hist' = [hist EXCEPT !.ended = @ + 1, !.ended_at = now]
    /\ UNCHANGED <<msgs, now, user_posts, bot_user_id, processed_messages,
                   messages, i, thread_messages, j, pm, cycle, faults,
                   budget, probe>>

\* time.sleep(CHECK_INTERVAL) of line 556, then the next turn of while True.
Sleep ==
    /\ pc = "sleep"
    /\ now' = now + CHECK_INTERVAL
    /\ pc' = "poll"
    /\ UNCHANGED <<msgs, user_posts, bot_user_id, processed_messages,
                   last_check_ts, messages, i, thread_messages, j, pm, cycle,
                   faults, hist, budget, probe>>

\* The steps of the service.
Service ==
    \/ AuthTest
    \/ StartupPost
    \/ GetRecentMessages
    \/ ScanThread
    \/ ScanStep
    \/ TopLevel
    \/ MentionRead
    \/ WarnPost
    \/ Generate
    \/ PostDraft
    \/ EndCycle
    \/ Sleep

Next == UserPost \/ Service

Spec == Init /\ [][Next]_vars

\* The loop of run() keeps running: time.sleep returns (line 556), and the
\* next turn of while True calls process_messages (line 552).
LiveSpec ==
    LoopInit /\ [][Service]_vars /\ WF_vars(Sleep) /\ WF_vars(GetRecentMessages)

\* The runs that follow the retries of the generation calls.
RetrySpec == RetryInit /\ [][Service]_vars

\* The runs over the channel with the quoted marker.
EchoSpec == EchoInit /\ [][Service]_vars

(***************************************************************************)
(* The text functions called on their own.                                 *)
(***************************************************************************)
\* Number of lines of a notification text.
MaxLines == 2

T_JANE ==
    <<"J", "a", "n", "e", " ", "D", "o", "e", " ", "<", "j", "a", "n", "e",
      "@", "x", ".", "o", "r", "g", ">", " ", "|", " ", "S", "u", "b", "j",
      "e", "c", "t", ":", " ", "B", "u", "d", "g", "e", "t", " ", "|", " ",
      "B", "o", "d", "y", " ", "P", "r", "e", "v", "i", "e", "w", ":", " ",
      "C", "a", "n", " ", "y", "o", "u", " ", "s", "e", "n", "d", " ", "t",
      "h", "e", " ", "Q", "3", " ", "n", "u", "m", "b", "e", "r", "s", "?" >>

\* " | Subject:" and " | Body Preview:", the markers without their last
\* space.
SUBJECT_STEM == SubSeq(SUBJECT_MARKER, 1, Len(SUBJECT_MARKER) - 1)
BODY_STEM == SubSeq(BODY_MARKER, 1, Len(BODY_MARKER) - 1)

\* What stands in the place of a field of a notification: nothing, blanks,
\* a word, a question mark, and words that end in the stem of a marker and
\* a tab.
EmailFields ==
    { <<>>, <<" ">>, <<"a">>, <<"?">>,
      <<"a">> \o SUBJECT_STEM \o <<"\t">>,
      <<"a">> \o BODY_STEM \o <<"\t">> }

\* What stands between two fields: the marker, or a bare pipe.
PIPE == <<" ", "|", " ">>

\* The lines after the first, for texts of 1..MaxLines lines.
RECURSIVE MoreLines(_)
MoreLines(n) ==
    IF n <= 1 THEN <<>> ELSE <<"\n">> \o T_EMAIL \o MoreLines(n - 1)

\* Texts of messages: "<field><sep><field><sep><field>" and further lines.
EmailTexts ==
    { f \o s1 \o s \o s2 \o b \o MoreLines(n) :
        f \in EmailFields, s1 \in {SUBJECT_MARKER, PIPE}, s \in EmailFields,
        s2 \in {BODY_MARKER, PIPE}, b \in EmailFields, n \in 1..MaxLines }
    \cup {T_JANE, T_EMAIL, T_EMAIL_URGENT}

W_SHORTER_CAP ==
    <<"S", "h", "o", "r", "t", "e", "r" >>

W_LONGER_UP ==
    <<"L", "O", "N", "G", "E", "R" >>

W_BLAH ==
    <<"b", "l", "a", "h" >>

W_SHORTERX ==
    <<"s", "h", "o", "r", "t", "e", "r", "x" >>

W_PLEASE ==
    <<" ", "p", "l", "e", "a", "s", "e", "!" >>

W_LONGER_TAIL ==
    <<" ", "l", "o", "n", "g", "e", "r" >>

\* Texts of messages: "<before><mention><gap><word><marks><after>".
CommandTexts ==
    { b \o m \o g \o w \o p \o a :
        b \in {<<>>, <<"x", " ">>},
        m \in {T_MENTION, <<>>},
        g \in {<<>>, <<" ">>, <<"\n">>, <<" ", "\t">>},
        w \in {<<>>, W_SHORTER_CAP, W_LONGER_UP, W_BLAH, W_SHORTERX,
               CMD_DRAFT, CMD_SHORTER, CMD_FORMAL, CMD_CASUAL, CMD_REWRITE},
        p \in {<<>>, <<"!">>, <<"?", "!">>, <<".">>, <<",", "x">>},
        a \in {<<>>, W_PLEASE, T_MENTION \o W_LONGER_TAIL} }

\* The service's variables, which a call of a text function leaves alone.
(***************************************************************************)
(* Threads and drafts the extractor is called on.                          *)
(***************************************************************************)
MaxThread == 2

T_OLD ==
    <<"O", "l", "d", "." >>

T_PLAIN ==
    <<"h", "i" >>

T_FALLBACK ==
    <<"D", "r", "a", "f", "t", " ", "R", "e", "s", "p", "o", "n", "s", "e",
      "\n", "h", "e", "l", "l", "o" >>

T_BLANK_GROUP ==
    <<"D", "r", "a", "f", "t", " ", "R", "e", "s", "p", "o", "n", "s", "e",
      "\n", "h", "e", "l", "l", "o", "\n", "*", "D", "r", "a", "f", "t",
      " ", "R", "e", "s", "p", "o", "n", "s", "e", "*", "\n", "\n", " ",
      "\n", "\n", "-", "-", "-" >>

D_PADDED ==
    <<" ", "O", "k", ".", " ", "\n" >>

D_LINES ==
    <<"a", "\n", "b" >>

D_RULE ==
    <<"H", "i", "\n", "\n", "-", "-", "-", "\n", "B", "y", "e" >>

D_RULE_END ==
    <<"x", "\n", "\n", "-", "-", "-" >>

\* The classification of a notification of normal priority.
C_NORMAL == classify_email([from |-> <<"a">>, subject |-> <<"s">>,
                            body |-> <<"b">>])

\* The texts of the messages of a thread: draft posts (new, refined, with an
\* empty draft), texts that hold the marker without the header or with a
\* blank span after it, a mention that quotes the marker, a plain text.
ThreadTexts ==
    { draft_message(GEN_OK, C_NORMAL, FALSE),
      draft_message(T_OLD, C_NORMAL, TRUE),
      draft_message(<<>>, C_NORMAL, FALSE),
      T_FALLBACK, T_BLANK_GROUP, T_QUOTE, T_PLAIN }

RECURSIVE ThreadsUpTo(_)
ThreadsUpTo(n) ==
    IF n = 0 THEN {<<>>}
    ELSE LET shorter == ThreadsUpTo(n - 1)
         IN  shorter \cup { Append(thread, [text |-> text]) :
                              thread \in shorter, text \in ThreadTexts }

ProbeThreads == ThreadsUpTo(MaxThread)

\* The drafts the generator returns.
DraftTexts == {GEN_OK, T_OLD, D_PADDED, D_LINES, D_RULE, D_RULE_END}

(***************************************************************************)
(* Emails the classifier is called on.                                     *)
(***************************************************************************)
\* Subjects and bodies: without a keyword, with keywords of one rule, of
\* an earlier and a later rule, and pieces that join into a keyword.
ClassifyFields ==
    { <<>>,
      <<"M", "e", "e", "t", "i", "n", "g", ",", " ", "t", "h", "a", "n", "k", " ", "y", "o", "u" >>,
      <<"t", "h", "a", "n", "k", " ", "y", "o", "u" >>,
      <<"I", "s", " ", "i", "t", "?" >>,
      <<"p", "l", "e", "a", "s", "e" >>,
      <<"F", "Y", "I" >>,
      <<"R", "e", "n", "e", "e" >>,
      <<"D", "i", "d", " ", "y", "o", "u" >> }

EmailRecords ==
    { [from |-> <<"a">>, subject |-> subject, body |-> body] :
        subject \in ClassifyFields, body \in ClassifyFields }

svars == <<msgs, now, user_posts, pc, bot_user_id, processed_messages,
           last_check_ts, messages, i, thread_messages, j, pm, cycle, faults,
           budget, hist>>

\* The arguments the text functions are called with.
Probes ==
    { [NoProbe EXCEPT !.stage = "email_in", !.text = text] :
        text \in EmailTexts }
    \cup { [NoProbe EXCEPT !.stage = "command_in", !.text = text] :
             text \in CommandTexts }
    \cup { [NoProbe EXCEPT !.stage = "record_in",
                           !.email = Some(email_data)] :
             email_data \in EmailRecords }
    \cup { [NoProbe EXCEPT !.stage = "thread_in", !.thread = thread] :
             thread \in ProbeThreads }
    \cup { [NoProbe EXCEPT !.stage = "draft_in", !.text = draft,
                           !.thread = thread, !.command = command,
                           !.classification = Some(C_NORMAL)] :
             draft \in DraftTexts,
             thread \in ThreadsUpTo(1),
             command \in {Some(CMD_DRAFT), Some(CMD_SHORTER)} }

TextInit ==
    /\ msgs = <<>>
    /\ budget = [posts |-> 0, transport |-> 0, gen |-> 0]
    /\ Idle
    /\ probe \in Probes

\* command = self.parse_command(msg_text), with the bot's id known.
CallParseCommand ==
    /\ probe.stage = "command_in"
    /\ probe' = [probe EXCEPT
                   !.stage = "command",
                   !.command = parse_command(Some(BOT_USER_ID), probe.text)]
    /\ UNCHANGED svars

\* email_data = self.parse_email_from_message(text)
CallParseEmail ==
    /\ probe.stage = "email_in"
    /\ probe' = [probe EXCEPT
                   !.stage = "email",
                   !.email = parse_email_from_message(probe.text)]
    /\ UNCHANGED svars

\* The template of line 208 filled with the fields of a parsed email.
Serialized(email_data) ==
    email_data.from \o SUBJECT_MARKER \o email_data.subject
    \o BODY_MARKER \o email_data.body

\* The parsed email is written back into the template and parsed again.
CallReparse ==
    /\ probe.stage = "email"
    /\ probe.email # None
    /\ probe' = [probe EXCEPT
                   !.stage = "reparsed",
                   !.again =
                       parse_email_from_message(Serialized(probe.email[1]))]
    /\ UNCHANGED svars

\* classification = self.classify_email(email_data)
CallClassify ==
    /\ probe.stage \in {"email", "record_in"}
    /\ probe.email # None
    /\ probe' = [probe EXCEPT
                   !.stage = "classified",
                   !.classification = Some(classify_email(probe.email[1]))]
    /\ UNCHANGED svars

\* self.post_draft_reply(thread_ts, draft, classification, is_refinement):
\* the message of lines 399-405 becomes the newest message of the thread.
CallPostDraftReply ==
    /\ probe.stage = "draft_in"
    /\ probe' = [probe EXCEPT
                   !.stage = "posted",
                   !.thread = Append(probe.thread,
                       [text |-> draft_message(probe.text,
                                               probe.classification[1],
                                               probe.command[1] \in commands)])]
    /\ UNCHANGED svars

\* last_draft = self.get_last_draft_from_thread(thread_messages)
CallGetLastDraft ==
    /\ probe.stage \in {"thread_in", "posted"}
    /\ probe' = [probe EXCEPT
                   !.stage = IF probe.stage = "posted" THEN "posted_extracted"
                             ELSE "extracted",
                   !.draft = get_last_draft_from_thread(probe.thread)]
    /\ UNCHANGED svars

TextNext ==
    \/ CallParseCommand
    \/ CallParseEmail
    \/ CallReparse
    \/ CallClassify
    \/ CallPostDraftReply
    \/ CallGetLastDraft

\* The runs in which a text function is called on an argument.
TextSpec == TextInit /\ [][TextNext]_vars

(***************************************************************************)
(* Properties.                                                             *)
(***************************************************************************)
NoDuplicates(s) ==
    \A a, b \in 1..Len(s) : a # b => s[a] # s[b]

LastOf(s, n) ==
    IF Len(s) <= n THEN s ELSE SubSeq(s, Len(s) - n + 1, Len(s))

InCycle == pc \in {"scan_read", "scan", "top", "pm_read", "pm_warn",
                   "generate", "pm_post", "end"}

\* C1: no message id is dispatched to mention processing twice in one run
\* of the service.  Stated for the runs in which no Slack call has failed:
\* the deque forgets an id that the six-hour listing still returns.
C1_DispatchedOnce ==
    faults.transport = 0 => NoDuplicates(hist.dispatched)

\* C2: processed_messages never holds more than maxlen ids, and it is always
\* the most recently appended ids in the order of their appending: an append
\* to a full deque removes the id appended earliest and no other.
C2_BoundedFifo ==
    /\ Len(processed_messages) <= maxlen
    /\ processed_messages = LastOf(hist.appended, maxlen)

\* C2 happens: more ids have been appended than the deque holds.
C2_Evicted ==
    Len(hist.appended) > maxlen

\* C3: when the processing of a message has failed in a cycle, the cycle is
\* not aborted and nothing propagates out of it: the cycle ends past the last
\* message of its listing, with no exception raised.
C3_FailureContained ==
    (pc = "sleep" /\ cycle >= 1 /\ hist.failed)
        => (~hist.raised /\ i > Len(messages))

\* C4: the step that ends the processing of a dispatched mention, whatever
\* its outcome, leaves the mention's id in processed_messages.
C4_MarkedWhenEnded ==
    [][(pm.status = "running" /\ pm'.status # "running")
          => InDeque(pm.msg_ts, processed_messages')]_vars

\* C5: an exception that leaves a cycle is caught by the loop, the service
\* sleeps CHECK_INTERVAL, and the next cycle eventually starts; cycles never
\* overlap, and the loop is never left.
C5_LoopGoesOn ==
    /\ [](cycle >= 1 => pc \notin {"returned", "crashed"})
    /\ [](hist.ended \in {cycle - 1, cycle})
    /\ []((InCycle /\ cycle >= 2)
             => hist.started_at >= hist.ended_at + CHECK_INTERVAL)
    /\ \A c \in 1..(MaxCycles - 1) :
          (hist.raised /\ cycle = c) ~> (cycle = c + 1)

\* C5 happens: a cycle runs after the cycle that an exception left.
C5_AfterEscape ==
    cycle >= 2 /\ InCycle /\ ~hist.prev_completed

\* C6: a generation call is attempted at most 4 times for a mention; the
\* waits before the retries are 2, 4 and 8 seconds; when all 4 attempts fail
\* with rate-limit errors the draft is the rate-limit placeholder, and no
\* exception is raised.
C6_RetryBound ==
    /\ pm.attempts <= 4
    /\ pm.rate_fails <= 4
    /\ Len(pm.waits) <= 3
    /\ pm.waits = SubSeq(<<2, 4, 8>>, 1, Len(pm.waits))
    /\ pm.other_fails = 0 => Len(pm.waits) = SeqMin({pm.rate_fails, 3})
    /\ pm.rate_fails = 4 =>
          /\ pm.draft = Some(RATE_LIMIT_PLACEHOLDER)
          /\ pm.attempts = 4
          /\ pc # "generate"
    /\ pm.status # "raised"
    /\ ~hist.raised

\* C6 happens: the fourth attempt of a refinement has failed with a
\* rate-limit error.
C6_Exhausted ==
    pm.rate_fails = 4 /\ pm.is_refinement

C8_NoWorkWithoutAuth ==
    hist.auth \in {"SlackApiError", "Exception"} =>
        /\ pc \in {"returned", "crashed"}
        /\ cycle = 0
        /\ hist.history_calls = 0
        /\ hist.replies_calls = 0
        /\ hist.generate_calls = 0
        /\ hist.post_calls = 0
        /\ hist.dispatched = <<>>

\* C8 happens: auth_test has failed with a mention waiting in the channel.
C8_AuthFailed ==
    hist.auth = "SlackApiError" /\ user_posts >= 1

\* The draft that a post of process_mention shows as refined.
ShownAsRefined(message) ==
    Contains(DRAFT_HEADER \o REFINED_NOTE, FirstLine(message))

\* C9: for a mention whose thread holds an email, process_mention refines the
\* thread's last draft when the command is a refinement and a draft can be
\* extracted, writes a new draft when the command is a refinement and no
\* draft can be extracted, and writes a new draft otherwise; in each case it
\* posts exactly one draft, marked as refined in the first case only.
C9_OneDraftPerMention ==
    LET refinement == /\ pm.command # None
                      /\ pm.command[1] \in {CMD_SHORTER, CMD_LONGER,
                                            CMD_FORMAL, CMD_CASUAL,
                                            CMD_REWRITE}
        extracted == get_last_draft_from_thread(pm.thread_messages)
    IN  /\ (pm.status = "returned" /\ pm.email_data # None)
              => (pm.posts = 1 /\ pm.warnings = 0)
        /\ pm.posts <= 1
        /\ pm.posts = 1 =>
              /\ pm.email_data # None
              /\ pm.posted = Some(draft_message(pm.draft[1],
                                                pm.classification[1],
                                                refinement /\ extracted # None))
              /\ IF refinement /\ extracted # None
                 THEN /\ pm.gen_input = extracted
                      /\ ShownAsRefined(pm.posted[1])
                 ELSE /\ pm.gen_input = None
                      /\ ~ShownAsRefined(pm.posted[1])

\* C9 happens: a refinement of an extracted draft has been posted.
C9_RefinedPosted ==
    /\ pm.status = "returned"
    /\ pm.posts = 1
    /\ pm.command = Some(CMD_SHORTER)
    /\ get_last_draft_from_thread(pm.thread_messages) # None

C11_MarkedWithoutAction ==
    [][(/\ pc = "top"
        /\ ~InDeque(messages[i].ts, processed_messages)
        /\ \/ Contains(DRAFT_MARKER, messages[i].text)
           \/ ~Contains(T_MENTION, messages[i].text))
          => /\ InDeque(messages[i].ts, processed_messages')
             /\ hist'.generate_calls = hist.generate_calls
             /\ hist'.post_calls = hist.post_calls
             /\ hist'.dispatched = hist.dispatched
             /\ msgs' = msgs
             /\ pm' = pm]_vars

\* C11 happens: a top-level message that carries the draft marker and the
\* mention has been marked seen, and so has one that carries neither.
C11_DraftAndPlainSeen ==
    /\ \E k \in 1..Len(msgs) :
          /\ IsTopLevel(msgs[k])
          /\ Contains(DRAFT_MARKER, msgs[k].text)
          /\ Contains(T_MENTION, msgs[k].text)
          /\ InDeque(msgs[k].ts, processed_messages)
    /\ \E k \in 1..Len(msgs) :
          /\ IsTopLevel(msgs[k])
          /\ ~Contains(DRAFT_MARKER, msgs[k].text)
          /\ ~Contains(T_MENTION, msgs[k].text)
          /\ InDeque(msgs[k].ts, processed_messages)

JANE_FROM ==
    <<"J", "a", "n", "e", " ", "D", "o", "e", " ", "<", "j", "a", "n", "e",
      "@", "x", ".", "o", "r", "g", ">" >>

JANE_SUBJECT ==
    <<"B", "u", "d", "g", "e", "t" >>

JANE_BODY ==
    <<"C", "a", "n", " ", "y", "o", "u", " ", "s", "e", "n", "d", " ", "t",
      "h", "e", " ", "Q", "3", " ", "n", "u", "m", "b", "e", "r", "s", "?" >>

\* C12, as the specification states it: the notification of Jane Doe parses
\* into its three fields, and classifies as a request of normal priority,
\* not from the priority sender.
C12_JaneIsRequest ==
    probe.text = T_JANE =>
        /\ probe.stage \in {"email", "classified"} =>
              probe.email = Some([from |-> JANE_FROM, subject |-> JANE_SUBJECT,
                                  body |-> JANE_BODY])
        /\ probe.stage = "classified" =>
              probe.classification =
                  Some([priority |-> PRIORITY_NORMAL, email_type |-> "request",
                        is_from_laura |-> FALSE])

\* C12: the notification of Jane Doe parses into its three fields, and
\* classifies as a question (its body holds a question mark, and the question
\* rule comes before the request rule) of normal priority, not from the
\* priority sender.
C12_JaneIsQuestion ==
    probe.text = T_JANE =>
        /\ probe.stage \in {"email", "classified"} =>
              probe.email = Some([from |-> JANE_FROM, subject |-> JANE_SUBJECT,
                                  body |-> JANE_BODY])
        /\ probe.stage = "classified" =>
              probe.classification =
                  Some([priority |-> PRIORITY_NORMAL, email_type |-> "question",
                        is_from_laura |-> FALSE])

\* C12 happens: the notification of Jane Doe has been parsed and classified.
C12_JaneClassified ==
    probe.text = T_JANE /\ probe.stage = "classified"

\* The token of the claim: the characters of text from its first character
\* that is no whitespace up to the next whitespace.
FirstToken(text) ==
    LET solid == {k \in 1..Len(text) : text[k] \notin Whitespace}
        first == CHOOSE k \in solid : \A n \in solid : k <= n
        blank == {k \in first..Len(text) : text[k] \in Whitespace}
        last == IF blank = {} THEN Len(text)
                ELSE (CHOOSE k \in blank : \A n \in blank : k <= n) - 1
    IN  SubSeq(text, first, last)

\* s without its trailing characters from chars.
RECURSIVE WithoutTrailing(_, _)
WithoutTrailing(s, chars) ==
    IF s # <<>> /\ s[Len(s)] \in chars
    THEN WithoutTrailing(SubSeq(s, 1, Len(s) - 1), chars)
    ELSE s

\* The command the claim gives a text that mentions the bot.
ExpectedCommand(text) ==
    LET at == Find(text, T_MENTION, 1)
        after == SubSeq(text, at + Len(T_MENTION), Len(text))
    IN  IF \A k \in 1..Len(after) : after[k] \in Whitespace
        THEN CMD_DRAFT
        ELSE LET token == Lower(WithoutTrailing(FirstToken(after),
                                  {".", ",", "!", "?", ";", ":"}))
             IN  IF token \in {CMD_SHORTER, CMD_LONGER, CMD_FORMAL,
                               CMD_CASUAL, CMD_REWRITE}
                 THEN token ELSE CMD_DRAFT

\* C13: for a text that mentions the bot, parse_command returns draft when
\* only whitespace follows the first mention; otherwise the first token after
\* it, without trailing punctuation and in lower case, when that is one of
\* the five refinement commands, and draft for every other token.  "Shorter
\* please!" gives shorter and "blah" gives draft.
C13_CommandOfFirstToken ==
    (probe.stage = "command" /\ Contains(T_MENTION, probe.text)) =>
        /\ probe.command = Some(ExpectedCommand(probe.text))
        /\ probe.text = T_MENTION \o <<" ">> \o W_SHORTER_CAP \o W_PLEASE
              => probe.command = Some(CMD_SHORTER)
        /\ probe.text = T_MENTION \o <<" ">> \o W_BLAH
              => probe.command = Some(CMD_DRAFT)
        /\ probe.text = T_MENTION => probe.command = Some(CMD_DRAFT)

\* C13 happens: parse_command has read "Shorter?!" after a mention that
\* follows other text, with blanks between and another word behind.
C13_ShorterRecognized ==
    /\ probe.stage = "command"
    /\ probe.text = <<"x", " ">> \o T_MENTION \o <<" ", "\t">>
                      \o W_SHORTER_CAP \o <<"?", "!">> \o W_PLEASE
    /\ probe.command = Some(CMD_SHORTER)

\* The fields of the claim: the first line cut at its first body marker, and
\* what stands before that cut at its first subject marker.
FieldsOf(text) ==
    LET by_body == SplitOnce(FirstLine(text), BODY_MARKER)
        by_subject == SplitOnce(by_body[1], SUBJECT_MARKER)
    IN  [from |-> Strip(by_subject[1]), subject |-> Strip(by_subject[2]),
         body |-> Strip(by_body[2])]

\* C14: parse_email_from_message returns None for a text whose first line
\* lacks one of the two markers, and for a text whose sender or subject is
\* empty after trimming; a text whose sender and subject are not empty and
\* whose body is empty is an email with the placeholder body.
C14_RejectsOnlyBrokenTexts ==
    probe.stage = "email" =>
        LET first == FirstLine(probe.text)
            marked == /\ Contains(BODY_MARKER, first)
                      /\ Contains(SUBJECT_MARKER,
                                  SplitOnce(first, BODY_MARKER)[1])
            fields == FieldsOf(probe.text)
        IN  /\ (~Contains(SUBJECT_MARKER, first)
                  \/ ~Contains(BODY_MARKER, first)) => probe.email = None
            /\ (marked /\ (fields.from = <<>> \/ fields.subject = <<>>))
                  => probe.email = None
            /\ (marked /\ fields.from # <<>> /\ fields.subject # <<>>
                  /\ fields.body = <<>>)
                  => probe.email = Some([fields EXCEPT !.body = NO_PREVIEW])

\* C15: a parsed email written back as "<sender> | Subject: <subject> | Body
\* Preview: <body>" parses again into the same email.
C15_RoundTrip ==
    probe.stage = "reparsed" => probe.again = probe.email

\* The messages of a thread that carry the marker of the draft posts.
Marked(thread) ==
    { n \in 1..Len(thread) : Contains(DRAFT_MARKER, thread[n].text) }

\* The messages of a thread a draft can be extracted from.
Yielding(thread) ==
    { n \in 1..Len(thread) : ExtractDraft(thread[n].text) # None }

Newest(S) == CHOOSE n \in S : \A m \in S : m <= n

\* The span between the header line and the line of dashes, when the
\* message has both; <<>> when it has not.
Span(text) ==
    IF DraftRegex(text) = None THEN <<>> ELSE Strip(DraftRegex(text)[1])

\* The draft the line scan finds in a message, <<>> when it finds none.
Scanned(text) ==
    Strip(JoinLines(DraftLines(SplitLines(text), FALSE, <<>>)))

\* C16 as stated: the newest message with the marker decides alone, it
\* gives none when its span is empty, and the line scan is used only when
\* the pattern does not match.
C16_NewestMarkedDecides ==
    probe.stage = "extracted" =>
        IF Marked(probe.thread) = {} THEN probe.draft = None
        ELSE LET text == probe.thread[Newest(Marked(probe.thread))].text
             IN  IF DraftRegex(text) # None
                 THEN probe.draft = (IF Span(text) = <<>> THEN None
                                     ELSE Some(Span(text)))
                 ELSE probe.draft = (IF Scanned(text) = <<>> THEN None
                                     ELSE Some(Scanned(text)))

\* C16: get_last_draft_from_thread returns the draft of the newest message
\* that carries the marker and yields a non-empty draft: the span of the
\* pattern when it is not blank, else what the line scan collects.  Marked
\* messages that yield nothing are passed over; the result is none only when
\* no message yields a draft.
C16_NewestYieldingDecides ==
    probe.stage = "extracted" =>
        /\ Yielding(probe.thread) \subseteq Marked(probe.thread)
        /\ IF Yielding(probe.thread) = {} THEN probe.draft = None
           ELSE LET text == probe.thread[Newest(Yielding(probe.thread))].text
                IN  /\ probe.draft # None
                    /\ probe.draft[1] # <<>>
                    /\ probe.draft[1] = IF Span(text) # <<>> THEN Span(text)
                                        ELSE Scanned(text)

\* A thread whose newest marked message yields nothing, after an older
\* draft post: the older draft is returned.
C16_OlderDraftReturned ==
    /\ probe.stage = "extracted"
    /\ Len(probe.thread) = 2
    /\ probe.thread[2].text = T_QUOTE
    /\ probe.thread[1].text = draft_message(T_OLD, C_NORMAL, TRUE)
    /\ probe.draft = Some(T_OLD)

\* C19: after post_draft_reply has posted a draft D as the newest message of
\* a thread, get_last_draft_from_thread on that thread returns D trimmed.
C19_PostedDraftExtracted ==
    probe.stage = "posted_extracted" => probe.draft = Some(Strip(probe.text))

\* A keyword of the list occurs in the subject or in the body.
InFields(keywords, email_data) ==
    \E kw \in keywords :
        \/ Contains(kw, Lower(email_data.subject))
        \/ Contains(kw, Lower(email_data.body))

\* C17: the category is that of the first rule, in the order scheduling,
\* question, request, fyi, acknowledgment, with a keyword in the subject or
\* in the body of the email, and general when no rule has one.
C17_FirstRuleWithKeyword ==
    probe.stage = "classified" =>
        LET email_data == probe.email[1]
        IN  probe.classification[1].email_type =
                IF InFields(scheduling_keywords, email_data) THEN "scheduling"
                ELSE IF InFields(question_keywords, email_data) THEN "question"
                ELSE IF InFields(request_keywords, email_data) THEN "request"
                ELSE IF InFields(fyi_keywords, email_data) THEN "fyi"
                ELSE IF InFields(acknowledgment_keywords, email_data)
                     THEN "acknowledgment"
                ELSE "general"

\* The messages of a thread that parse as a notification.
Parsable(thread) ==
    { n \in 1..Len(thread) : parse_email_from_message(thread[n].text) # None }

\* C18: the email a mention is processed with is the first message of the
\* thread, in the order of the listing, that parses as a notification; the
\* classification and the posted draft are made from it.
C18_FirstParsableIsContext ==
    pm.email_data # None =>
        LET thread == pm.thread_messages
        IN  /\ Parsable(thread) # {}
            /\ LET first == parse_email_from_message(
                                thread[SeqMin(Parsable(thread))].text)
               IN  /\ pm.email_data = first
                   /\ pm.classification = Some(classify_email(first[1]))
                   /\ pm.posted # None =>
                          pm.posted[1] = draft_message(pm.draft[1],
                                             classify_email(first[1]),
                                             pm.is_refinement)

\* A draft was posted for the mention of a thread that holds two
\* notifications, made from the first one.
C18_TwoNotifications ==
    /\ pm.target_thread = 5
    /\ pm.posted # None
    /\ Cardinality(Parsable(pm.thread_messages)) = 2
    /\ pm.email_data = parse_email_from_message(T_EMAIL_URGENT)
    /\ StartsWith(pm.posted[1], EMOJI_URGENT)

\* The messages the service has posted: those after the messages the
\* channel held at the start, where no user posts.
OwnPosts == { k \in 1..Len(msgs) : k > Len(EchoChannel) }

\* C20: the service does not react to its own posts.  No message that
\* carries the draft marker is dispatched, with or without a mention; every
\* post of the service carries the marker or holds no mention, and none is
\* dispatched; a dispatched mention makes at most one post, and the calls
\* of chat_postMessage are at most the dispatched mentions and the startup
\* announcement.
C20_NoReactionToOwnPosts ==
    /\ \A k \in 1..Len(hist.dispatched) :
          /\ ~Contains(DRAFT_MARKER, msgs[hist.dispatched[k]].text)
          /\ hist.dispatched[k] \notin OwnPosts
    /\ \A k \in OwnPosts :
          \/ Contains(DRAFT_MARKER, msgs[k].text)
          \/ /\ msgs[k].text \in {WARNING_TEXT, STARTUP_TEXT}
             /\ ~Contains(T_MENTION, msgs[k].text)
    /\ pm.posts + pm.warnings <= 1
    /\ hist.post_calls <= Len(hist.dispatched) + 1

\* The service has marked seen a draft and the startup announcement of its
\* own and a reply of a user that quotes the marker with a mention, it has
\* posted a warning, and none of them was dispatched.
C20_OwnPostsSeen ==
    LET seen == { hist.appended[k] : k \in 1..Len(hist.appended) }
    IN  /\ \E k \in OwnPosts \cap seen : Contains(DRAFT_MARKER, msgs[k].text)
        /\ \E k \in OwnPosts \cap seen : msgs[k].text = STARTUP_TEXT
        /\ \E k \in OwnPosts : msgs[k].text = WARNING_TEXT
        /\ 7 \in seen
        /\ 7 \notin { hist.dispatched[k] : k \in 1..Len(hist.dispatched) }
        /\ hist.ended >= 1

\* C21: processed_messages never holds an id twice, and an id is appended
\* only when it is not in processed_messages at that moment.
C21_AppendedWhenAbsent ==
    /\ []NoDuplicates(processed_messages)
    /\ [][processed_messages' # processed_messages =>
            /\ processed_messages' # <<>>
            /\ \A k \in 1..Len(processed_messages) :
                  processed_messages[k] #
                      processed_messages'[Len(processed_messages')]]_vars

\* A top-level message that mentions the bot was dispatched from the scan of
\* its own thread, where it is the first message, and appended; the
\* top-level check now meets it as a member.
C21_ParentMetAgain ==
    /\ pc = "top"
    /\ pm.status = "returned"
    /\ pm.ret = "scan"
    /\ pm.msg_ts = messages[i].ts
    /\ \E k \in 1..Len(processed_messages) :
          processed_messages[k] = messages[i].ts

\* How often the id was dispatched to process_mention.
Dispatches(ts) ==
    Cardinality({ k \in 1..Len(hist.dispatched) : hist.dispatched[k] = ts })

\* C22: a mention whose thread holds no email, or could not be read, makes
\* no generation call and no draft post; process_mention attempts one
\* warning post and returns, and the mention is dispatched that once only.
C22_WarnedOnceAndDone ==
    /\ pc = "pm_warn" =>
          /\ pm.email_data = None
          /\ pm.attempts = 0 /\ pm.posts = 0 /\ pm.warnings = 0
    /\ pm.warnings > 0 =>
          /\ pm.warnings = 1
          /\ pm.attempts = 0 /\ pm.posts = 0
          /\ pm.status = "returned"
          /\ Dispatches(pm.msg_ts) = 1
====
